---- MODULE Spec2Model ----
\* A model of go-validator (src/validator.go): a Validator holds an ordered
\* list of deferred rules, a Field is a handle binding one value and one name
\* to a Validator, every catalog method of Field appends one closure to the
\* Validator's list and returns the Field, and Validate runs the list either
\* fail-fast or collect-all.
EXTENDS Integers, Sequences, FiniteSets, TLC

VARIABLES
    rules,      \* rules[v]: the rule list of Validator v (Validator.rules)
    fields,     \* fields[f]: the Field record behind handle f
    offered,    \* offered[v][i]: the messages the caller handed to the catalog
                \* call that made rules[v][i]
    call,       \* the most recent API call
    ret,        \* what that call returned
    ran         \* the rules that call ran: each one's index and its error

vars == <<rules, fields, offered, call, ret, ran>>

\* ---------------------------------------------------------------- bounds
MaxRules == 3
ProbeRules == 1

\* ---------------------------------------------------------------- values
\* A Go interface{} value, by dynamic type. s is the text of a string as a
\* sequence of one-character strings, n the number of an int, or twice the
\* number of a float64 (so 3 is 1.5), b the bool. "nil" is the nil interface,
\* "other" any non-nil value of another dynamic type.
TextV(chars) == [kind |-> "string", s |-> chars, n |-> 0, b |-> FALSE]
IntV(i) == [kind |-> "int", s |-> <<>>, n |-> i, b |-> FALSE]
FloatV(halves) == [kind |-> "float64", s |-> <<>>, n |-> halves, b |-> FALSE]
BoolV(x) == [kind |-> "bool", s |-> <<>>, n |-> 0, b |-> x]
NilV == [kind |-> "nil", s |-> <<>>, n |-> 0, b |-> FALSE]
OtherV == [kind |-> "other", s |-> <<>>, n |-> 0, b |-> FALSE]

\* An error value: Nil, or an error carrying its text.
Nil == <<>>
Err(text) == <<text>>

\* A []error: the nil slice, or a slice of error texts.
NilSlice == [nil |-> TRUE, errs |-> <<>>]
Slice(texts) == [nil |-> FALSE, errs |-> texts]

\* ---------------------------------------------------------------- fmt
Digit(d) == <<"0", "1", "2", "3", "4", "5", "6", "7", "8", "9">>[d + 1]

RECURSIVE Utoa(_)
Utoa(n) == IF n < 10 THEN Digit(n) ELSE Utoa(n \div 10) \o Digit(n % 10)

\* The %d verb.
Itoa(n) == IF n < 0 THEN "-" \o Utoa(-n) ELSE Utoa(n)

\* The %s verb on a string value: its characters, unchanged.
RECURSIVE Str(_)
Str(chars) == IF chars = <<>> THEN "" ELSE Head(chars) \o Str(Tail(chars))

\* ---------------------------------------------------------------- regexp
Digits == {"0", "1", "2", "3", "4", "5", "6", "7", "8", "9"}
Letters ==
    {"a", "b", "c", "d", "e", "f", "g", "h", "i", "j", "k", "l", "m",
     "n", "o", "p", "q", "r", "s", "t", "u", "v", "w", "x", "y", "z",
     "A", "B", "C", "D", "E", "F", "G", "H", "I", "J", "K", "L", "M",
     "N", "O", "P", "Q", "R", "S", "T", "U", "V", "W", "X", "Y", "Z"}
LocalChars == Letters \cup Digits \cup {".", "_", "%", "+", "-"}
DomainChars == Letters \cup Digits \cup {".", "-"}

AllIn(chars, from, to, class) == \A k \in from..to : chars[k] \in class

\* ^[a-zA-Z0-9._%+-]+@[a-zA-Z0-9.-]+\.[a-zA-Z]{2,}$
EmailMatch(chars) ==
    \E at \in 2..Len(chars) : \E dot \in (at + 2)..(Len(chars) - 2) :
        /\ chars[at] = "@"
        /\ chars[dot] = "."
        /\ AllIn(chars, 1, at - 1, LocalChars)
        /\ AllIn(chars, at + 1, dot - 1, DomainChars)
        /\ AllIn(chars, dot + 1, Len(chars), Letters)

\* ^\+?[0-9]{10,15}$
PhoneMatch(chars) ==
    LET body == IF chars # <<>> /\ Head(chars) = "+" THEN Tail(chars) ELSE chars
    IN  /\ Len(body) >= 10
        /\ Len(body) <= 15
        /\ AllIn(body, 1, Len(body), Digits)

\* ---------------------------------------------------------------- rules
\* A rule is the closure a catalog method appends: it holds the Field handle
\* f it was built on, the method's length argument and its variadic messages.
Rule(op, f, length, messages) ==
    [op |-> op, f |-> f, length |-> length, messages |-> messages]

\* message := "" ; if len(messages) > 0 { message = messages[0] }
Message(messages) == IF Len(messages) > 0 THEN messages[1] ELSE ""

\* if message != "" { return fmt.Errorf("%s", message) } ; return <default>
Fail(message, default) == IF message # "" THEN Err(message) ELSE Err(default)

RunString(fld, message) ==
    IF fld.value.kind # "string"
    THEN Fail(message, fld.name \o " must be a string")
    ELSE Nil

\* RunRequired with the int case passing for zero.
RunRequiredZeroPasses(fld) ==
    CASE fld.value.kind = "string" ->
            IF Len(fld.value.s) = 0 THEN Err(fld.name \o " is required") ELSE Nil
      [] fld.value.kind = "float64" ->
            IF fld.value.n = 0 THEN Err(fld.name \o " is required") ELSE Nil
      [] fld.value.kind \in {"int", "bool"} -> Nil
      [] OTHER ->
            IF fld.value.kind = "nil" THEN Err(fld.name \o " is required") ELSE Nil

RunRequired(fld) ==
    CASE fld.value.kind = "string" ->
            IF Len(fld.value.s) = 0 THEN Err(fld.name \o " is required") ELSE Nil
      [] fld.value.kind = "int" ->
            IF fld.value.n = 0 THEN Err(fld.name \o " is required") ELSE Nil
      [] fld.value.kind = "float64" ->
            IF fld.value.n = 0 THEN Err(fld.name \o " is required") ELSE Nil
      [] fld.value.kind = "bool" -> Nil
      [] OTHER ->
            IF fld.value.kind = "nil" THEN Err(fld.name \o " is required") ELSE Nil

RunEmail(fld, message) ==
    IF fld.value.kind # "string"
    THEN Fail(message, fld.name \o " must be a valid email")
    ELSE IF ~EmailMatch(fld.value.s)
    THEN Fail(message, fld.name \o " must be a valid email")
    ELSE Nil

\* RunMin with the type-mismatch branch ignoring the custom message.
RunMinTypeDefault(fld, length, message) ==
    IF fld.value.kind # "int"
    THEN Err(fld.name \o " must be an integer ")
    ELSE IF fld.value.n < length
    THEN Fail(message, Itoa(fld.value.n) \o " cannot be less than " \o Itoa(length))
    ELSE Nil

RunMin(fld, length, message) ==
    IF fld.value.kind # "int"
    THEN Fail(message, fld.name \o " must be an integer ")
    ELSE IF fld.value.n < length
    THEN Fail(message, Itoa(fld.value.n) \o " cannot be less than " \o Itoa(length))
    ELSE Nil

RunMax(fld, length, message) ==
    IF fld.value.kind # "int"
    THEN Fail(message, fld.name \o " must be an integer ")
    ELSE IF fld.value.n > length
    THEN Fail(message, Itoa(fld.value.n) \o " cannot be greater than " \o Itoa(length))
    ELSE Nil

RunMinLength(fld, length, message) ==
    IF fld.value.kind # "string"
    THEN Fail(message, fld.name \o " must be a string ")
    ELSE IF Len(fld.value.s) < length
    THEN Fail(message, Str(fld.value.s) \o " cannot be less than "
                        \o Itoa(length) \o " characters ")
    ELSE Nil

RunMaxLength(fld, length, message) ==
    IF fld.value.kind # "string"
    THEN Fail(message, fld.name \o " must be a string ")
    ELSE IF Len(fld.value.s) > length
    THEN Fail(message, Str(fld.value.s) \o " cannot be more than "
                        \o Itoa(length) \o " characters")
    ELSE Nil

RunNumber(fld, message) ==
    IF fld.value.kind # "int"
    THEN Fail(message, fld.name \o " must be a number")
    ELSE Nil

RunPhone(fld, message) ==
    IF fld.value.kind # "string"
    THEN Fail(message, fld.name \o " must be a valid email")
    ELSE IF ~PhoneMatch(fld.value.s)
    THEN Fail(message, fld.name \o " must be a valid phone number")
    ELSE Nil

\* rule(): the closure reads the Field through its captured handle.
Run(r, flds) ==
    LET fld == flds[r.f]
        message == Message(r.messages)
    IN  CASE r.op = "String" -> RunString(fld, message)
          [] r.op = "Required" -> RunRequired(fld)
          [] r.op = "Email" -> RunEmail(fld, message)
          [] r.op = "Min" -> RunMin(fld, r.length, message)
          [] r.op = "Max" -> RunMax(fld, r.length, message)
          [] r.op = "MinLength" -> RunMinLength(fld, r.length, message)
          [] r.op = "MaxLength" -> RunMaxLength(fld, r.length, message)
          [] r.op = "Number" -> RunNumber(fld, message)
          [] r.op = "Phone" -> RunPhone(fld, message)

\* ---------------------------------------------------------------- Validate
\* The loop of Validate from rule i on. called lists, for every rule the loop
\* called, its index and the error it returned.
\* ValidateLoop that never looks at stopOnFirst.
RECURSIVE ValidateLoopNoStop(_, _, _, _, _, _)
ValidateLoopNoStop(rs, flds, stopOnFirst, i, allErrors, called) ==
    IF i > Len(rs)
    THEN [ret |-> IF Len(allErrors) = 0 THEN NilSlice ELSE Slice(allErrors),
          ran |-> called]
    ELSE LET err == Run(rs[i], flds)
             called2 == Append(called, [index |-> i, err |-> err])
         IN  ValidateLoopNoStop(rs, flds, stopOnFirst, i + 1,
                                IF err # Nil THEN Append(allErrors, err[1])
                                             ELSE allErrors,
                                called2)

\* ValidateLoop that skips the rule after a failing one when collecting.
RECURSIVE ValidateLoopSkip(_, _, _, _, _, _)
ValidateLoopSkip(rs, flds, stopOnFirst, i, allErrors, called) ==
    IF i > Len(rs)
    THEN [ret |-> IF Len(allErrors) = 0 THEN NilSlice ELSE Slice(allErrors),
          ran |-> called]
    ELSE LET err == Run(rs[i], flds)
             called2 == Append(called, [index |-> i, err |-> err])
         IN  IF err # Nil
             THEN IF stopOnFirst
                  THEN [ret |-> Slice(<<err[1]>>), ran |-> called2]
                  ELSE ValidateLoopSkip(rs, flds, stopOnFirst, i + 2,
                                        Append(allErrors, err[1]), called2)
             ELSE ValidateLoopSkip(rs, flds, stopOnFirst, i + 1, allErrors, called2)

\* ValidateLoop that returns allErrors as it is, an empty non-nil slice when
\* nothing failed.
RECURSIVE ValidateLoopEmptySlice(_, _, _, _, _, _)
ValidateLoopEmptySlice(rs, flds, stopOnFirst, i, allErrors, called) ==
    IF i > Len(rs)
    THEN [ret |-> Slice(allErrors), ran |-> called]
    ELSE LET err == Run(rs[i], flds)
             called2 == Append(called, [index |-> i, err |-> err])
         IN  IF err # Nil
             THEN IF stopOnFirst
                  THEN [ret |-> Slice(<<err[1]>>), ran |-> called2]
                  ELSE ValidateLoopEmptySlice(rs, flds, stopOnFirst, i + 1,
                                              Append(allErrors, err[1]), called2)
             ELSE ValidateLoopEmptySlice(rs, flds, stopOnFirst, i + 1,
                                         allErrors, called2)

\* ValidateLoop that leaves the loop on the first failure under stopOnFirst
\* without returning the error.
RECURSIVE ValidateLoopBreak(_, _, _, _, _, _)
ValidateLoopBreak(rs, flds, stopOnFirst, i, allErrors, called) ==
    IF i > Len(rs)
    THEN [ret |-> IF Len(allErrors) = 0 THEN NilSlice ELSE Slice(allErrors),
          ran |-> called]
    ELSE LET err == Run(rs[i], flds)
             called2 == Append(called, [index |-> i, err |-> err])
         IN  IF err # Nil
             THEN IF stopOnFirst
                  THEN [ret |-> NilSlice, ran |-> called2]
                  ELSE ValidateLoopBreak(rs, flds, stopOnFirst, i + 1,
                                         Append(allErrors, err[1]), called2)
             ELSE ValidateLoopBreak(rs, flds, stopOnFirst, i + 1, allErrors, called2)

RECURSIVE ValidateLoop(_, _, _, _, _, _)
ValidateLoop(rs, flds, stopOnFirst, i, allErrors, called) ==
    IF i > Len(rs)
    THEN [ret |-> IF Len(allErrors) = 0 THEN NilSlice ELSE Slice(allErrors),
          ran |-> called]
    ELSE LET err == Run(rs[i], flds)
             called2 == Append(called, [index |-> i, err |-> err])
         IN  IF err # Nil
             THEN IF stopOnFirst
                  THEN [ret |-> Slice(<<err[1]>>), ran |-> called2]
                  ELSE ValidateLoop(rs, flds, stopOnFirst, i + 1,
                                    Append(allErrors, err[1]), called2)
             ELSE ValidateLoop(rs, flds, stopOnFirst, i + 1, allErrors, called2)

\* ---------------------------------------------------------------- state
NoCall == [op |-> "none", v |-> 0, f |-> 0, stopOnFirst |-> FALSE]

RetValidator(v) == [kind |-> "validator", id |-> v, errors |-> NilSlice]
RetField(f) == [kind |-> "field", id |-> f, errors |-> NilSlice]
RetErrors(e) == [kind |-> "errors", id |-> 0, errors |-> e]

\* v.Field(value, name): a new Field bound to v.
Field(v, value, name) ==
    /\ fields' = Append(fields, [validator |-> v, value |-> value, name |-> name])
    /\ call' = [NoCall EXCEPT !.op = "Field", !.v = v]
    /\ ret' = RetField(Len(fields) + 1)
    /\ ran' = <<>>
    /\ UNCHANGED <<rules, offered>>

\* Register putting the new rule at the front of the list.
RegisterFirst(op, f, length, captured, messages) ==
    LET v == fields[f].validator
    IN  /\ rules' = [rules EXCEPT ![v] = <<Rule(op, f, length, captured)>> \o @]
        /\ offered' = [offered EXCEPT ![v] = <<messages>> \o @]
        /\ call' = [NoCall EXCEPT !.op = op, !.v = v, !.f = f]
        /\ ret' = RetField(f)
        /\ ran' = <<>>
        /\ UNCHANGED fields

\* f.validator.rules = append(f.validator.rules, closure) ; return f
\* captured is what the closure holds of the caller's messages.
Register(op, f, length, captured, messages) ==
    LET v == fields[f].validator
    IN  /\ rules' = [rules EXCEPT ![v] = Append(@, Rule(op, f, length, captured))]
        /\ offered' = [offered EXCEPT ![v] = Append(@, messages)]
        /\ call' = [NoCall EXCEPT !.op = op, !.v = v, !.f = f]
        /\ ret' = RetField(f)
        /\ ran' = <<>>
        /\ UNCHANGED fields

String(f, messages) == Register("String", f, 0, messages, messages)

\* Required declares no messages parameter: whatever text the caller has for
\* it, the closure holds none.
Required(f, messages) == Register("Required", f, 0, <<>>, messages)

Email(f, messages) == Register("Email", f, 0, messages, messages)

Min(f, length, messages) == Register("Min", f, length, messages, messages)

Max(f, length, messages) == Register("Max", f, length, messages, messages)

MinLength(f, length, messages) == Register("MinLength", f, length, messages, messages)

MaxLength(f, length, messages) == Register("MaxLength", f, length, messages, messages)

Number(f, messages) == Register("Number", f, 0, messages, messages)

Phone(f, messages) == Register("Phone", f, 0, messages, messages)

\* Validate emptying the list it ran.
ValidateDraining(v, stopOnFirst) ==
    LET out == ValidateLoop(rules[v], fields, stopOnFirst, 1, <<>>, <<>>)
    IN  /\ call' = [NoCall EXCEPT !.op = "Validate", !.v = v, !.stopOnFirst = stopOnFirst]
        /\ ret' = RetErrors(out.ret)
        /\ ran' = out.ran
        /\ rules' = [rules EXCEPT ![v] = <<>>]
        /\ offered' = [offered EXCEPT ![v] = <<>>]
        /\ UNCHANGED fields

\* v.Validate(stopOnFirst)
Validate(v, stopOnFirst) ==
    LET out == ValidateLoop(rules[v], fields, stopOnFirst, 1, <<>>, <<>>)
    IN  /\ call' = [NoCall EXCEPT !.op = "Validate", !.v = v, !.stopOnFirst = stopOnFirst]
        /\ ret' = RetErrors(out.ret)
        /\ ran' = out.ran
        /\ UNCHANGED <<rules, fields, offered>>

\* ---------------------------------------------------------------- Spec
\* A session over two Validators: each input of a form becomes a Field on one
\* of them, rules are chained on the Field made last, and Validate is called
\* at any time.
Inputs == {[value |-> IntV(0), name |-> "Age"],
           [value |-> TextV(<<"a", "b">>), name |-> "Nick"]}
Lengths == {1}
NoMessages == {<<>>}

RECURSIVE TotalRules(_)
TotalRules(rs) == IF rs = <<>> THEN 0 ELSE Len(Head(rs)) + TotalRules(Tail(rs))

Validators == DOMAIN rules
Chain == IF fields = <<>> THEN {} ELSE {Len(fields)}
Room == TotalRules(rules) < MaxRules
Fresh(name) == \A f \in DOMAIN fields : fields[f].name # name

\* New(), twice: every Validator starts with an empty rule list.
Init ==
    /\ rules = <<<<>>, <<>>>>
    /\ fields = <<>>
    /\ offered = <<<<>>, <<>>>>
    /\ call = [NoCall EXCEPT !.op = "New"]
    /\ ret = RetValidator(2)
    /\ ran = <<>>

Next ==
    \/ \E v \in Validators, in \in Inputs :
           Fresh(in.name) /\ Field(v, in.value, in.name)
    \/ \E f \in Chain, m \in NoMessages : Room /\ String(f, m)
    \/ \E f \in Chain, m \in NoMessages : Room /\ Required(f, m)
    \/ \E f \in Chain, m \in NoMessages : Room /\ Email(f, m)
    \/ \E f \in Chain, n \in Lengths, m \in NoMessages : Room /\ Min(f, n, m)
    \/ \E f \in Chain, n \in Lengths, m \in NoMessages : Room /\ Max(f, n, m)
    \/ \E f \in Chain, n \in Lengths, m \in NoMessages : Room /\ MinLength(f, n, m)
    \/ \E f \in Chain, n \in Lengths, m \in NoMessages : Room /\ MaxLength(f, n, m)
    \/ \E f \in Chain, m \in NoMessages : Room /\ Number(f, m)
    \/ \E f \in Chain, m \in NoMessages : Room /\ Phone(f, m)
    \/ \E v \in Validators, stopOnFirst \in BOOLEAN : Validate(v, stopOnFirst)

Spec == Init /\ [][Next]_vars

\* ---------------------------------------------------------------- SpecCatalog
\* The rule catalog on its own: one Validator, one Field over a value and a
\* name drawn from the sets below, every catalog method with every length and
\* message, then Validate.
Texts ==
    { <<>>,
      <<"a">>,
      <<"a", "b">>,
      <<"a", "b", "c">>,
      <<"a", "b", "c", "d">>,
      <<"a", "@", "b", ".", "c", "o">>,
      <<"a", "@", "b">>,
      <<"a", "@", "b", ".", "c">>,
      <<"@", "b", ".", "c", "o">>,
      <<"1", "2", "3">>,
      <<"1", "2", "3", "4", "5", "6", "7", "8", "9">>,
      <<"1", "2", "3", "4", "5", "6", "7", "8", "9", "0">>,
      <<"+", "1", "2", "3", "4", "5", "6", "7", "8", "9">>,
      <<"+", "1", "2", "3", "4", "5", "6", "7", "8", "9", "0", "1">>,
      <<"1", "2", "3", "4", "5", "6", "7", "8", "9", "0", "+">>,
      <<"1", "2", "3", "4", "5", "6", "7", "8", "9", "0", "a">>,
      <<"1", "2", "3", "4", "5", "6", "7", "8", "9", "0", "1", "2", "3", "4", "5">>,
      <<"1", "2", "3", "4", "5", "6", "7", "8", "9", "0", "1", "2", "3", "4", "5", "6">> }

CatalogValues ==
    {TextV(t) : t \in Texts}
        \cup {IntV(i) : i \in {-3, 0, 3, 5, 6, 12}}
        \cup {FloatV(h) : h \in {0, 3, 10}}
        \cup {BoolV(x) : x \in BOOLEAN}
        \cup {NilV, OtherV}
CatalogNames == {"Age", "X"}
CatalogLengths == {3, 5}
CatalogMessages == {<<>>, <<"">>, <<"bad input">>}

Probe == {1}
ProbeRoom == Len(rules[1]) < ProbeRules

\* New() and Field(value, name) have been called.
InitCatalog ==
    /\ rules = <<<<>>>>
    /\ \E value \in CatalogValues, name \in CatalogNames :
           fields = <<[validator |-> 1, value |-> value, name |-> name]>>
    /\ offered = <<<<>>>>
    /\ call = [NoCall EXCEPT !.op = "Field", !.v = 1]
    /\ ret = RetField(1)
    /\ ran = <<>>

NextCatalog ==
    \/ \E f \in Probe, m \in CatalogMessages : ProbeRoom /\ String(f, m)
    \/ \E f \in Probe, m \in CatalogMessages : ProbeRoom /\ Required(f, m)
    \/ \E f \in Probe, m \in CatalogMessages : ProbeRoom /\ Email(f, m)
    \/ \E f \in Probe, n \in CatalogLengths, m \in CatalogMessages :
           ProbeRoom /\ Min(f, n, m)
    \/ \E f \in Probe, n \in CatalogLengths, m \in CatalogMessages :
           ProbeRoom /\ Max(f, n, m)
    \/ \E f \in Probe, n \in CatalogLengths, m \in CatalogMessages :
           ProbeRoom /\ MinLength(f, n, m)
    \/ \E f \in Probe, n \in CatalogLengths, m \in CatalogMessages :
           ProbeRoom /\ MaxLength(f, n, m)
    \/ \E f \in Probe, m \in CatalogMessages : ProbeRoom /\ Number(f, m)
    \/ \E f \in Probe, m \in CatalogMessages : ProbeRoom /\ Phone(f, m)
    \/ \E stopOnFirst \in BOOLEAN : Validate(1, stopOnFirst)

SpecCatalog == InitCatalog /\ [][NextCatalog]_vars

\* ---------------------------------------------------------------- claims
CatalogOps == {"String", "Required", "Email", "Min", "Max", "MinLength",
               "MaxLength", "Number", "Phone"}

\* The rules of Validator v that fail, by index, and the text of rule i.
Failing(v) == {i \in DOMAIN rules[v] : Run(rules[v][i], fields) # Nil}
FirstFailing(v) == CHOOSE i \in Failing(v) : \A j \in Failing(v) : i <= j
Text(v, i) == Run(rules[v][i], fields)[1]

\* The last call ran exactly the rules 1..k, each once, in that order.
RanUpTo(k) == Len(ran) = k /\ \A j \in 1..k : ran[j].index = j

Validated == call.op = "Validate"

\* C1: with at least one failing rule, Validate(true) returns exactly one
\* message, the one of the first failing rule in registration order, and runs
\* no rule registered after that rule.
C1_FailFast ==
    (Validated /\ call.stopOnFirst /\ Failing(call.v) # {}) =>
        /\ ret.errors = Slice(<<Text(call.v, FirstFailing(call.v))>>)
        /\ RanUpTo(FirstFailing(call.v))

C1_Witness ==
    /\ Validated /\ call.stopOnFirst
    /\ Len(rules[call.v]) = 3
    /\ Failing(call.v) = {2, 3}
    /\ Len(ran) = 2
    /\ Len(ret.errors.errs) = 1

\* C2: Validate(false) runs every registered rule exactly once whatever failed
\* before, and returns one message per failing rule, in registration order.
C2_CollectAll ==
    (Validated /\ ~call.stopOnFirst) =>
        /\ RanUpTo(Len(rules[call.v]))
        /\ Len(ret.errors.errs) = Cardinality(Failing(call.v))
        /\ \A i \in Failing(call.v) :
               ret.errors.errs[Cardinality({j \in Failing(call.v) : j <= i})]
                   = Text(call.v, i)

C2_Witness ==
    /\ Validated /\ ~call.stopOnFirst
    /\ Len(rules[call.v]) = 3
    /\ Failing(call.v) = {1, 3}
    /\ Len(ran) = 3
    /\ Len(ret.errors.errs) = 2

\* C3: in both modes Validate returns nil exactly when no registered rule
\* fails; with no rule registered it returns nil; a non-nil result is never
\* empty.
C3_NilIffNoFailure ==
    Validated =>
        /\ ret.errors.nil <=> Failing(call.v) = {}
        /\ rules[call.v] = <<>> => ret.errors.nil
        /\ ret.errors.nil => ret.errors.errs = <<>>
        /\ ~ret.errors.nil => Len(ret.errors.errs) >= 1

C3_Witness ==
    /\ Validated
    /\ Len(rules[call.v]) = 2
    /\ Failing(call.v) = {}
    /\ ret.errors.nil
    /\ \E w \in DOMAIN rules : rules[w] # <<>> /\ Failing(w) # {}

\* C8: Validate changes neither the rule list nor the fields; the same call
\* made again from the state it leaves returns the same result, and a Validate
\* call repeated with the same stopOnFirst on the same Validator returns what
\* the call before it returned.
C8_ValidateIsPure ==
    [][call'.op = "Validate" =>
          /\ rules' = rules
          /\ fields' = fields
          /\ ret'.errors = ValidateLoop(rules'[call'.v], fields', call'.stopOnFirst,
                                        1, <<>>, <<>>).ret
          /\ (Validated /\ call.v = call'.v /\ call.stopOnFirst = call'.stopOnFirst)
                 => ret' = ret]_vars

C8_Witness ==
    /\ Validated
    /\ Len(rules[call.v]) = 3
    /\ Cardinality(Failing(call.v)) = 3
    /\ ~ret.errors.nil

\* C9: Field leaves every rule list unchanged; a catalog call on handle f
\* appends exactly one rule, of its own kind and built on f, at the end of the
\* list of f's Validator, leaves the rules before it and every other
\* Validator's list unchanged, and returns f.
C9_Frame ==
    [][/\ call'.op = "Field" =>
              /\ rules' = rules
              /\ Len(fields') = Len(fields) + 1
              /\ SubSeq(fields', 1, Len(fields)) = fields
              /\ fields'[Len(fields')].validator = call'.v
              /\ ret' = RetField(Len(fields'))
       /\ call'.op \in CatalogOps =>
              LET f == call'.f
                  v == fields[f].validator
                  n == Len(rules[v])
              IN  /\ call'.v = v
                  /\ Len(rules'[v]) = n + 1
                  /\ SubSeq(rules'[v], 1, n) = rules[v]
                  /\ rules'[v][n + 1].op = call'.op
                  /\ rules'[v][n + 1].f = f
                  /\ DOMAIN rules' = DOMAIN rules
                  /\ \A w \in DOMAIN rules \ {v} : rules'[w] = rules[w]
                  /\ fields' = fields
                  /\ ret' = RetField(f)]_vars

C9_Witness ==
    /\ call.op \in CatalogOps
    /\ Len(fields) = 2
    /\ fields[1].validator = fields[2].validator
    /\ Len(rules[call.v]) = 3
    /\ rules[call.v][1].f = 1
    /\ rules[call.v][2].f = 2
    /\ rules[call.v][3].op = call.op
    /\ ret = RetField(2)

\* C10: the two modes agree on every rule list: Validate(true) is nil exactly
\* when Validate(false) is nil, and otherwise Validate(true) is the one-element
\* slice holding the first message of Validate(false).
C10_ModesAgree ==
    Validated =>
        LET other == ValidateLoop(rules[call.v], fields, ~call.stopOnFirst,
                                  1, <<>>, <<>>).ret
            fast == IF call.stopOnFirst THEN ret.errors ELSE other
            all == IF call.stopOnFirst THEN other ELSE ret.errors
        IN  /\ fast.nil <=> all.nil
            /\ ~all.nil => fast = Slice(<<all.errs[1]>>)

C10_Witness ==
    /\ Validated /\ ~call.stopOnFirst
    /\ Len(ret.errors.errs) = 2
    /\ ValidateLoop(rules[call.v], fields, TRUE, 1, <<>>, <<>>).ret
           = Slice(<<ret.errors.errs[1]>>)

\* ------------------------------------------------ claims on the catalog
\* What the j-th rule the last Validate ran was, and on what.
RanRule(j) == rules[call.v][ran[j].index]
RanField(j) == fields[RanRule(j).f]
RanOffered(j) == Message(offered[call.v][ran[j].index])

RequiredAbsent(value) ==
    \/ value.kind = "string" /\ Len(value.s) = 0
    \/ value.kind = "int" /\ value.n = 0
    \/ value.kind = "float64" /\ value.n = 0
    \/ value.kind = "nil"

C5_Required ==
    Validated =>
        \A j \in DOMAIN ran :
            RanRule(j).op = "Required" =>
                /\ ran[j].err # Nil <=> RequiredAbsent(RanField(j).value)
                /\ ran[j].err # Nil
                       => ran[j].err = Err(RanField(j).name \o " is required")

C5_Witness ==
    /\ Validated
    /\ \E j \in DOMAIN ran :
           /\ RanRule(j).op = "Required"
           /\ RanField(j) = [validator |-> 1, value |-> IntV(0), name |-> "Age"]
           /\ ran[j].err = Err("Age is required")

\* C6: with no custom message, phone fails with "{name} must be a valid phone
\* number" both when the value is not a string and when the string is not an
\* optional '+' followed by 10 to 15 digits, and passes for the strings that
\* are.
C6_PhoneMessage ==
    Validated =>
        \A j \in DOMAIN ran :
            (RanRule(j).op = "Phone" /\ Message(RanRule(j).messages) = "") =>
                /\ ran[j].err = Nil <=>
                       /\ RanField(j).value.kind = "string"
                       /\ PhoneMatch(RanField(j).value.s)
                /\ ran[j].err # Nil =>
                       ran[j].err = Err(RanField(j).name
                                            \o " must be a valid phone number")

\* C7: with no custom message, min(n) and max(n) fail on a value that is not
\* an int with exactly "{name} must be an integer"; on an int v, min fails iff
\* v < n with "{v} cannot be less than {n}" and max fails iff v > n with
\* "{v} cannot be greater than {n}"; v = n passes both.
C7_MinMaxMessages ==
    Validated =>
        \A j \in DOMAIN ran :
            LET r == RanRule(j)
                value == RanField(j).value
                relation == IF r.op = "Min" THEN value.n < r.length
                                            ELSE value.n > r.length
                wording == IF r.op = "Min" THEN " cannot be less than "
                                           ELSE " cannot be greater than "
            IN  (r.op \in {"Min", "Max"} /\ Message(r.messages) = "") =>
                    IF value.kind # "int"
                    THEN ran[j].err = Err(RanField(j).name \o " must be an integer")
                    ELSE /\ ran[j].err # Nil <=> relation
                         /\ ran[j].err # Nil =>
                                ran[j].err = Err(Itoa(value.n) \o wording
                                                     \o Itoa(r.length))

====
